---- MODULE Spec2Model ----
(***************************************************************************)
(* Model of extremeflash's ws-ap3710i.py: the main (coordinator) thread,   *)
(* the serial thread, the SSH thread and the TFTP listener thread, with    *)
(* the three global Events that synchronise them; and of flash_ap325.py,   *)
(* the sequential AP325 flasher (specification Ap325Spec).                 *)
(*                                                                         *)
(* Text (serial lines, command output, commands) is a sequence of tokens;  *)
(* Python's `needle in text` is Contains(text, needle).                    *)
(***************************************************************************)
EXTENDS Integers, Sequences, FiniteSets, TLC

VARIABLES
    mainpc,                    \* position of main()
    serpc,                     \* position of start_tftp_boot_via_serial()
    sshpc,                     \* position of start_ssh()
    proc,                      \* "running", "exited" (interpreter shutdown), "os_exit" (os._exit(1))
    tftp_thread,               \* "none", "starting", "listening", "bindfailed", "stopped"
    shutdown_gracefully,       \* flag set by tftp_server.stop()
    tftp_stops,                \* number of calls of tftp_server.stop()
    event_keep_serial_active,
    event_abort_ssh,
    event_ssh_ready,
    DRYRUN,
    cur_retries,
    written,                   \* commands written to the serial port, in order
    ser_exc,                   \* exception that ended the serial thread ("" if none)
    printenv_return,           \* reply to printenv as bootup_set_boot_openwrt read it
    saveenv_return,            \* reply to saveenv as bootup_set_boot_openwrt read it
    chars,                     \* bytes bootup_login_verification read
    local_ip,                  \* --local-ip as parsed by ipaddress.ip_interface
    ap_ip,                     \* --ap-ip as parsed, or NoInterface when not given
    plan,                      \* what setting_up_ips returned
    ssh_actions,               \* what the SSH thread did on the network, in order
    sysupgrade_stderr,         \* captured stderr of the remote command
    ssh_exc,                   \* exception that ended the SSH thread ("" if none)
    log,                       \* set of log messages emitted so far
    appc,                      \* position of flash_ap325.py's main()
    router_written,            \* commands flash_ap325.py wrote to the router, in order
    router_version,            \* version read from the APBoot banner (<<>> before)
    netget_res,                \* reply to the last netget command, as lines
    image_size,                \* what the last write_netget returned (-1 before)
    ap_exc                     \* exception that ended flash_ap325.py ("" if none)

vars == <<mainpc, serpc, sshpc, proc, tftp_thread, shutdown_gracefully, tftp_stops,
          event_keep_serial_active, event_abort_ssh, event_ssh_ready, DRYRUN,
          cur_retries, written, ser_exc, ssh_actions, sysupgrade_stderr, ssh_exc, log,
          printenv_return, saveenv_return, chars, local_ip, ap_ip, plan,
          appc, router_written, router_version, netget_res, image_size, ap_exc>>

mainvars == <<mainpc>>
servars == <<serpc, cur_retries, written, ser_exc, printenv_return, saveenv_return, chars>>
ipvars == <<local_ip, ap_ip, plan>>
sshvars == <<sshpc, ssh_actions, sysupgrade_stderr, ssh_exc>>
tftpvars == <<tftp_thread, shutdown_gracefully, tftp_stops>>
events == <<event_keep_serial_active, event_abort_ssh, event_ssh_ready>>
apvars == <<appc, router_written, router_version, netget_res, image_size, ap_exc>>

----------------------------------------------------------------------------
(* Bounds *)

\* how many times the login window marker is answered before the model stops answering
MaxLoginPrompts == 2

----------------------------------------------------------------------------
(* Text *)

Contains(text, needle) ==
    \E i \in 0..(Len(text) - Len(needle)) : SubSeq(text, i + 1, i + Len(needle)) = needle

Has(line, marker) == Contains(line, <<marker>>)

\* str.replace(old, new) on a token sequence, old being one token
RECURSIVE Replace(_, _, _)
Replace(text, old, new) ==
    IF text = <<>> THEN <<>>
    ELSE (IF Head(text) = old THEN new ELSE <<Head(text)>>) \o Replace(Tail(text), old, new)

Count(seq, x) == Cardinality({i \in 1..Len(seq) : seq[i] = x})

\* the lines the serial port can deliver; <<>> is a read that timed out
Markers == {"### JFFS2 load complete", "### JFFS2 LOAD ERROR", "[30s timeout]", "password: new2day",
            "Retry count exceeded", "Wrong Image Format for bootm command",
            "ERROR: can't get kernel image!", "## Booting kernel from FIT Image at",
            "## Loading kernel from FIT Image at", "br-lan: link becomes ready",
            "Upgrade completed", "reboot: Restarting system"}

Lines == {<<>>, <<"noise">>} \cup {<<m>> : m \in Markers}
         \cup {<<"Retry count exceeded", "## Booting kernel from FIT Image at">>,
               <<"noise", "reboot: Restarting system">>}

----------------------------------------------------------------------------
(* Addresses: an interface is an address (its octets) with a prefix length *)

NoInterface == [ip |-> <<>>, prefixlen |-> 0]

NoPlan == [state |-> "none", ap_ip_interface |-> NoInterface, local_ip_interface |-> NoInterface]

\* network.max_prefixlen: 32 for IPv4 (4 octets), 128 for IPv6 (16 octets)
max_prefixlen(iface) == 8 * Len(iface.ip)

IsIPv4(iface) == Len(iface.ip) = 4

\* number of host bits of octet k under the prefix length
HostBits(prefixlen, k) ==
    LET netbits == prefixlen - 8 * (k - 1)
    IN 8 - (IF netbits < 0 THEN 0 ELSE IF netbits > 8 THEN 8 ELSE netbits)

\* network.broadcast_address: the address with every host bit set
broadcast_address(iface) ==
    [k \in 1..Len(iface.ip) |->
        LET m == 2 ^ HostBits(iface.prefixlen, k)
        IN (iface.ip[k] \div m) * m + m - 1]

\* address - 1, borrowing across octets
RECURSIVE AddressMinusOne(_)
AddressMinusOne(addr) ==
    IF addr = <<>> THEN <<>>
    ELSE LET n == Len(addr)
         IN IF addr[n] > 0 THEN [addr EXCEPT ![n] = @ - 1]
            ELSE Append(AddressMinusOne(SubSeq(addr, 1, n - 1)), 255)

Fixed(iface) == [raised |-> FALSE, value |-> iface]
FixRaised == [raised |-> TRUE, value |-> NoInterface]

\* ip_address_fix_prefix that leaves a single-host prefix as it is
ip_address_fix_prefix_NoWiden(ip_interface) ==
    IF ip_interface.prefixlen = max_prefixlen(ip_interface) - 1 THEN FixRaised
    ELSE Fixed(ip_interface)

\* ip_address_fix_prefix without the check of max_prefixlen - 1
ip_address_fix_prefix_NoReject(ip_interface) ==
    IF ip_interface.prefixlen = max_prefixlen(ip_interface)
    THEN Fixed([ip |-> ip_interface.ip, prefixlen |-> IF IsIPv4(ip_interface) THEN 24 ELSE 64])
    ELSE Fixed(ip_interface)

ip_address_fix_prefix(ip_interface) ==
    IF ip_interface.prefixlen = max_prefixlen(ip_interface)
    THEN Fixed([ip |-> ip_interface.ip, prefixlen |-> IF IsIPv4(ip_interface) THEN 24 ELSE 64])
    ELSE IF ip_interface.prefixlen = max_prefixlen(ip_interface) - 1
    THEN FixRaised
    ELSE Fixed(ip_interface)

PlanRaised == [state |-> "ValueError", ap_ip_interface |-> NoInterface, local_ip_interface |-> NoInterface]

setting_up_ips(local, ap_ip_str) ==
    LET fixed_local == ip_address_fix_prefix(local)
    IN IF fixed_local.raised THEN PlanRaised
       ELSE LET local_ip_interface == fixed_local.value
                default_ap == [ip |-> AddressMinusOne(broadcast_address(local_ip_interface)),
                               prefixlen |-> local_ip_interface.prefixlen]
                fixed_ap == IF ap_ip_str # NoInterface THEN ip_address_fix_prefix(ap_ip_str)
                            ELSE Fixed(default_ap)
            IN IF fixed_ap.raised THEN PlanRaised
               ELSE IF local_ip_interface.ip = fixed_ap.value.ip THEN PlanRaised
               ELSE [state |-> "returned", ap_ip_interface |-> fixed_ap.value,
                     local_ip_interface |-> local_ip_interface]

\* the addresses and prefix lengths the address functions are exercised on
IPv4Addresses == {<<192, 168, 1, 1>>, <<192, 168, 1, 254>>, <<192, 168, 1, 255>>, <<10, 0, 0, 2>>,
                  <<0, 0, 0, 0>>}
IPv4Prefixes == {0, 8, 23, 24, 30, 31, 32}
IPv6Addresses == {<<254, 128, 0, 0, 0, 0, 0, 0, 0, 0, 0, 0, 0, 0, 0, 1>>,
                  <<254, 128, 0, 0, 0, 0, 0, 0, 255, 255, 255, 255, 255, 255, 255, 254>>}
IPv6Prefixes == {64, 127, 128}

Interfaces ==
    {[ip |-> a, prefixlen |-> p] : a \in IPv4Addresses, p \in IPv4Prefixes}
    \cup {[ip |-> a, prefixlen |-> p] : a \in IPv6Addresses, p \in IPv6Prefixes}

\* the addresses a modelled flashing run is started with
RunLocalIps == {[ip |-> <<192, 168, 1, 70>>, prefixlen |-> 32]}
RunApIps == {NoInterface, [ip |-> <<192, 168, 1, 70>>, prefixlen |-> 24]}

----------------------------------------------------------------------------
(* Thread liveness as Thread.is_alive() reports it *)

SerialAlive == serpc \notin {"unstarted", "terminated", "failed"}
SshAlive == sshpc \notin {"unstarted", "done", "aborted", "failed"}

Running == proc = "running"

----------------------------------------------------------------------------
(* Serial thread: start_tftp_boot_via_serial and the steps it calls *)

\* an exception leaves the `with serial.Serial(...)` block and ends the thread
SerRaise(exc) == serpc' = "failed" /\ ser_exc' = exc

\* serial.Serial(port=name, ...) opens the port or raises
SerOpen ==
    /\ Running /\ serpc = "open"
    /\ \E ok \in BOOLEAN :
          IF ok THEN serpc' = "arm" /\ UNCHANGED ser_exc
          ELSE SerRaise("SerialException")
    /\ UNCHANGED <<mainvars, sshvars, tftpvars, events, proc, DRYRUN, ipvars, apvars, printenv_return, saveenv_return, chars, cur_retries, written, log>>

SerArm ==
    /\ Running /\ serpc = "arm"
    /\ event_keep_serial_active' = TRUE
    /\ serpc' = "bootup_interrupt"
    /\ UNCHANGED <<mainvars, sshvars, tftpvars, event_abort_ssh, event_ssh_ready, proc, DRYRUN, ipvars, apvars, printenv_return, saveenv_return, chars,
                   cur_retries, written, ser_exc, log>>

\* bootup_interrupt without the `break` after the write
bootup_interrupt_NoBreak ==
    /\ Running /\ serpc = "bootup_interrupt"
    /\ IF ~event_keep_serial_active
       THEN serpc' = "bootup_login" /\ UNCHANGED written
       ELSE \E line \in Lines :
              IF Has(line, "### JFFS2 load complete") \/ Has(line, "### JFFS2 LOAD ERROR")
              THEN written' = Append(written, "x") /\ UNCHANGED serpc
              ELSE UNCHANGED <<serpc, written>>
    /\ UNCHANGED <<mainvars, sshvars, tftpvars, events, proc, DRYRUN, ipvars, apvars, printenv_return, saveenv_return, chars,
                   cur_retries, ser_exc, log>>

bootup_interrupt ==
    /\ Running /\ serpc = "bootup_interrupt"
    /\ IF ~event_keep_serial_active
       THEN serpc' = "bootup_login" /\ UNCHANGED written
       ELSE \E line \in Lines :
              IF Has(line, "### JFFS2 load complete") \/ Has(line, "### JFFS2 LOAD ERROR")
              THEN written' = Append(written, "x") /\ serpc' = "bootup_login"
              ELSE UNCHANGED <<serpc, written>>
    /\ UNCHANGED <<mainvars, sshvars, tftpvars, events, proc, DRYRUN, ipvars, apvars, printenv_return, saveenv_return, chars, cur_retries, ser_exc, log>>

\* bootup_login after which start_tftp_boot_via_serial goes on without
\* bootup_login_verification
bootup_login_SkipVerification ==
    /\ Running /\ serpc = "bootup_login"
    /\ IF ~event_keep_serial_active
       THEN serpc' = "bootup_login_verification" /\ UNCHANGED written
       ELSE \E line \in Lines :
              IF Has(line, "[30s timeout]")
              THEN /\ Count(written, "admin") < MaxLoginPrompts
                   /\ written' = written \o <<"admin", "new2day">>
                   /\ UNCHANGED serpc
              ELSE IF Has(line, "password: new2day")
              THEN serpc' = "bootup_set_boot_openwrt" /\ UNCHANGED written
              ELSE UNCHANGED <<serpc, written>>
    /\ UNCHANGED <<mainvars, sshvars, tftpvars, events, proc, DRYRUN, ipvars, apvars, printenv_return, saveenv_return, chars,
                   cur_retries, ser_exc, log>>

bootup_login ==
    /\ Running /\ serpc = "bootup_login"
    /\ IF ~event_keep_serial_active
       THEN serpc' = "bootup_login_verification" /\ UNCHANGED written
       ELSE \E line \in Lines :
              IF Has(line, "[30s timeout]")
              THEN /\ Count(written, "admin") < MaxLoginPrompts
                   /\ written' = written \o <<"admin", "new2day">>
                   /\ UNCHANGED serpc
              ELSE IF Has(line, "password: new2day")
              THEN serpc' = "bootup_login_verification" /\ UNCHANGED written
              ELSE UNCHANGED <<serpc, written>>
    /\ UNCHANGED <<mainvars, sshvars, tftpvars, events, proc, DRYRUN, ipvars, apvars, printenv_return, saveenv_return, chars, cur_retries, ser_exc, log>>

prompt_string == "Boot (PRI)->"

\* number of bytes of a token, as len()/in_waiting count them
ByteLen(tok) ==
    CASE tok = "Boot (PRI)->" -> 12
      [] tok = "CRLF" -> 2
      [] tok = "Login incorrect" -> 15
      [] OTHER -> 5

RECURSIVE InWaiting(_)
InWaiting(buf) == IF buf = <<>> THEN 0 ELSE ByteLen(Head(buf)) + InWaiting(Tail(buf))

\* what may be waiting in the input buffer when the verification loop polls it
Reads == {<<>>, <<"Boot (PRI)->">>, <<"CRLF", "Boot (PRI)->">>, <<"CRLF", "Login incorrect", "CRLF">>,
          <<"noise">>}

\* bootup_login_verification that keeps polling instead of raising
bootup_login_verification_NoRaise ==
    /\ Running /\ serpc = "bootup_login_verification"
    /\ IF ~event_keep_serial_active
       THEN serpc' = "bootup_set_boot_openwrt" /\ UNCHANGED <<log, chars>>
       ELSE \E waiting \in Reads :
              IF InWaiting(waiting) > ByteLen(prompt_string)
              THEN /\ chars' = waiting
                   /\ IF Has(waiting, prompt_string)
                      THEN /\ serpc' = "bootup_set_boot_openwrt"
                           /\ log' = log \cup {"U-Boot login successful!"}
                      ELSE UNCHANGED <<serpc, log>>
              ELSE UNCHANGED <<serpc, log, chars>>
    /\ UNCHANGED <<mainvars, sshvars, tftpvars, events, proc, DRYRUN, ipvars, apvars, printenv_return, saveenv_return,
                   cur_retries, written, ser_exc>>

bootup_login_verification ==
    /\ Running /\ serpc = "bootup_login_verification"
    /\ IF ~event_keep_serial_active
       THEN serpc' = "bootup_set_boot_openwrt" /\ UNCHANGED <<ser_exc, log, chars>>
       ELSE \E waiting \in Reads :
              IF InWaiting(waiting) > ByteLen(prompt_string)
              THEN /\ chars' = waiting
                   /\ IF Has(waiting, prompt_string)
                      THEN /\ serpc' = "bootup_set_boot_openwrt"
                           /\ log' = log \cup {"U-Boot login successful!"}
                           /\ UNCHANGED ser_exc
                      ELSE SerRaise("U-Boot login failed :((") /\ UNCHANGED log
              ELSE UNCHANGED <<serpc, ser_exc, log, chars>>
    /\ UNCHANGED <<mainvars, sshvars, tftpvars, events, proc, DRYRUN, ipvars, apvars, printenv_return, saveenv_return,
                   cur_retries, written>>

boot_openwrt_params == <<"setenv bootargs;", "cp.b 0xee000000 0x1000000 0x1000000;", "bootm 0x1000000">>

\* replies to printenv: a sequence of key=value lines
PrintenvReturns ==
    { <<[key |-> "bootcmd", value |-> <<"run", "boot_os">>]>>,
      <<[key |-> "bootcmd", value |-> <<"run", "boot_openwrt">>],
        [key |-> "boot_openwrt", value |-> boot_openwrt_params]>>,
      <<[key |-> "bootcmd", value |-> <<"run", "boot_os">>],
        [key |-> "boot_openwrt", value |-> <<"bootm 0xee000000">>]>>,
      <<[key |-> "bootcmd", value |-> <<"run", "boot_openwrt">>]>> }

\* "boot_openwrt" in printenv_return
MentionsBootOpenwrt(dump) ==
    \E i \in 1..Len(dump) : dump[i].key = "boot_openwrt" \/ Has(dump[i].value, "boot_openwrt")

\* re.search(r'boot_openwrt=(.*)\r\n', printenv_return): the lines that match
BootOpenwrtMatches(dump) == {i \in 1..Len(dump) : dump[i].key = "boot_openwrt"}

\* saveenv_return before the read
NotRead == <<"not read">>

SaveenvReturns == { <<"Erasing Flash...", "Writing to Flash", "done">>,
                    <<"Erasing Flash...", "failed">>,
                    <<>> }

\* a comparison that accepts any existing value
UnexpectedParams_Never(existing) == FALSE

\* `boot_openwrt_params.decode('ascii') != existing_boot_openwrt_params`
UnexpectedParams(existing) == boot_openwrt_params # existing

bootup_set_boot_openwrt ==
    /\ Running /\ serpc = "bootup_set_boot_openwrt"
    /\ IF ~event_keep_serial_active
       THEN serpc' = "boot_via_tftp" /\ UNCHANGED <<written, ser_exc, log, printenv_return, saveenv_return>>
       ELSE \E dump \in PrintenvReturns, reply \in SaveenvReturns :
           /\ printenv_return' = dump
           /\ IF MentionsBootOpenwrt(dump)
              THEN /\ written' = Append(written, "printenv")
                   /\ UNCHANGED <<log, saveenv_return>>
                   /\ IF BootOpenwrtMatches(dump) = {}
                      THEN SerRaise("AttributeError")
                      ELSE LET existing == dump[CHOOSE i \in BootOpenwrtMatches(dump) :
                                                   \A j \in BootOpenwrtMatches(dump) : i <= j].value
                           IN IF UnexpectedParams(existing)
                              THEN SerRaise("Unexpected param for 'boot_openwrt' found.")
                              ELSE serpc' = "boot_via_tftp" /\ UNCHANGED ser_exc
              ELSE IF DRYRUN
              THEN /\ written' = written \o <<"printenv", "setenv boot_openwrt", "setenv bootcmd">>
                   /\ log' = log \cup {"dryrun: Skipping saveenv"}
                   /\ serpc' = "boot_via_tftp" /\ UNCHANGED <<ser_exc, saveenv_return>>
              ELSE /\ written' = written \o <<"printenv", "setenv boot_openwrt", "setenv bootcmd", "saveenv">>
                   /\ saveenv_return' = reply
                   /\ UNCHANGED log
                   /\ IF ~Has(reply, "Writing to Flash")
                      THEN SerRaise("saveenv did not successfully write to flash")
                      ELSE serpc' = "boot_via_tftp" /\ UNCHANGED ser_exc
    /\ UNCHANGED <<mainvars, sshvars, tftpvars, events, proc, DRYRUN, ipvars, apvars, chars, cur_retries>>

max_retries == 2

\* `cur_retries >= max_retries`
RetriesExceeded_OffByOne(n) == n >= max_retries

\* `cur_retries > max_retries`
RetriesExceeded(n) == n > max_retries

boot_via_tftp_cmds ==
    /\ Running /\ serpc = "boot_via_tftp"
    /\ written' = written \o <<"setenv ipaddr", "setenv netmask", "setenv serverip",
                               "setenv gatewayip", "tftpboot">>
    /\ log' = log \cup {"Starting TFTP Boot."}
    /\ cur_retries' = 0
    /\ serpc' = "boot_via_tftp_loop"
    /\ UNCHANGED <<mainvars, sshvars, tftpvars, events, proc, DRYRUN, ipvars, apvars, printenv_return, saveenv_return, chars, ser_exc>>

boot_via_tftp_loop ==
    /\ Running /\ serpc = "boot_via_tftp_loop"
    /\ IF ~event_keep_serial_active
       THEN serpc' = "boot_wait_for_brlan" /\ UNCHANGED <<cur_retries, written, ser_exc, log, proc>>
       ELSE \E line \in Lines :
              IF Has(line, "Retry count exceeded")
              THEN /\ cur_retries' = cur_retries + 1
                   /\ UNCHANGED <<log, proc>>
                   /\ IF RetriesExceeded(cur_retries')
                      THEN /\ written' = Append(written, "ctrl-c")
                           /\ SerRaise("Maximum TFTP retries reached. Aborting")
                      ELSE UNCHANGED <<serpc, written, ser_exc>>
              ELSE IF Has(line, "Wrong Image Format for bootm command")
              THEN /\ log' = log \cup {"TFTP boot found wrong image format"}
                   /\ UNCHANGED <<serpc, cur_retries, written, ser_exc, proc>>
              ELSE IF Has(line, "ERROR: can't get kernel image!")
              THEN /\ log' = log \cup {"Unable to boot initramfs file."}
                   /\ proc' = "os_exit"
                   /\ UNCHANGED <<serpc, cur_retries, written, ser_exc>>
              ELSE IF Has(line, "## Booting kernel from FIT Image at")
                      \/ Has(line, "## Loading kernel from FIT Image at")
              THEN /\ serpc' = "boot_wait_for_brlan"
                   /\ UNCHANGED <<cur_retries, written, ser_exc, log, proc>>
              ELSE UNCHANGED <<serpc, cur_retries, written, ser_exc, log, proc>>
    /\ UNCHANGED <<mainvars, sshvars, tftpvars, events, DRYRUN, ipvars, apvars, printenv_return, saveenv_return, chars>>

boot_wait_for_brlan ==
    /\ Running /\ serpc = "boot_wait_for_brlan"
    /\ IF ~event_keep_serial_active
       THEN serpc' = "boot_set_ips" /\ UNCHANGED log
       ELSE \E line \in Lines :
              IF Has(line, "br-lan: link becomes ready")
              THEN serpc' = "boot_set_ips" /\ log' = log \cup {"br-lan is ready."}
              ELSE UNCHANGED <<serpc, log>>
    /\ UNCHANGED <<mainvars, sshvars, tftpvars, events, proc, DRYRUN, ipvars, apvars, printenv_return, saveenv_return, chars, cur_retries, written, ser_exc>>

boot_set_ips ==
    /\ Running /\ serpc = "boot_set_ips"
    /\ written' = written \o <<"newline", "ip address del", "ip address add", "ip -4 address show">>
    /\ serpc' = "signal_ready"
    /\ UNCHANGED <<mainvars, sshvars, tftpvars, events, proc, DRYRUN, ipvars, apvars, printenv_return, saveenv_return, chars, cur_retries, ser_exc, log>>

\* event_ssh_ready.set() of the serial thread
SerSignalReady ==
    /\ Running /\ serpc = "signal_ready"
    /\ event_ssh_ready' = TRUE
    /\ serpc' = "keep_logging_until_reboot"
    /\ UNCHANGED <<mainvars, sshvars, tftpvars, event_keep_serial_active, event_abort_ssh, proc, DRYRUN, ipvars, apvars, printenv_return, saveenv_return, chars,
                   cur_retries, written, ser_exc, log>>

keep_logging_until_reboot ==
    /\ Running /\ serpc = "keep_logging_until_reboot"
    /\ IF ~event_keep_serial_active
       THEN serpc' = "terminated" /\ UNCHANGED log
       ELSE \E line \in Lines :
              IF Has(line, "Upgrade completed")
              THEN log' = log \cup {"Flashing successful."} /\ UNCHANGED serpc
              ELSE IF Has(line, "reboot: Restarting system")
              THEN serpc' = "terminated" /\ log' = log \cup {"Reboot detected."}
              ELSE UNCHANGED <<serpc, log>>
    /\ UNCHANGED <<mainvars, sshvars, tftpvars, events, proc, DRYRUN, ipvars, apvars, printenv_return, saveenv_return, chars, cur_retries, written, ser_exc>>

start_tftp_boot_via_serial ==
    \/ SerOpen \/ SerArm \/ bootup_interrupt \/ bootup_login \/ bootup_login_verification
    \/ bootup_set_boot_openwrt \/ boot_via_tftp_cmds \/ boot_via_tftp_loop \/ boot_wait_for_brlan
    \/ boot_set_ips \/ SerSignalReady \/ keep_logging_until_reboot

----------------------------------------------------------------------------
(* SSH thread: start_ssh *)

SshRaise == sshpc' = "failed" /\ ssh_exc' = "SSHException"

\* event_ssh_ready.wait()
SshWait ==
    /\ Running /\ sshpc = "wait"
    /\ event_ssh_ready
    /\ sshpc' = "check_abort"
    /\ UNCHANGED <<mainvars, servars, tftpvars, events, proc, DRYRUN, ipvars, apvars, ssh_actions, sysupgrade_stderr,
                   ssh_exc, log>>

\* start_ssh with the test negated: `if not event_abort_ssh.is_set(): return`
SshCheckAbort_Negated ==
    /\ Running /\ sshpc = "check_abort"
    /\ IF ~event_abort_ssh
       THEN sshpc' = "aborted" /\ UNCHANGED log
       ELSE sshpc' = "connect" /\ log' = log \cup {"SSH Starting"}
    /\ UNCHANGED <<mainvars, servars, tftpvars, events, proc, DRYRUN, ipvars, apvars, ssh_actions, sysupgrade_stderr, ssh_exc>>

\* start_ssh without the `if event_abort_ssh.is_set(): return` check
SshCheckAbort_NoAbortCheck ==
    /\ Running /\ sshpc = "check_abort"
    /\ sshpc' = "connect" /\ log' = log \cup {"SSH Starting"}
    /\ UNCHANGED <<mainvars, servars, tftpvars, events, proc, DRYRUN, ipvars, apvars, ssh_actions, sysupgrade_stderr, ssh_exc>>

\* `if event_abort_ssh.is_set(): return`
SshCheckAbort ==
    /\ Running /\ sshpc = "check_abort"
    /\ IF event_abort_ssh
       THEN sshpc' = "aborted" /\ UNCHANGED log
       ELSE sshpc' = "connect" /\ log' = log \cup {"SSH Starting"}
    /\ UNCHANGED <<mainvars, servars, tftpvars, events, proc, DRYRUN, ipvars, apvars, ssh_actions, sysupgrade_stderr, ssh_exc>>

SshConnect ==
    /\ Running /\ sshpc = "connect"
    /\ \E ok \in BOOLEAN :
          IF ok THEN /\ ssh_actions' = Append(ssh_actions, <<"transport">>)
                     /\ sshpc' = "put" /\ UNCHANGED ssh_exc
          ELSE SshRaise /\ UNCHANGED ssh_actions
    /\ UNCHANGED <<mainvars, servars, tftpvars, events, proc, DRYRUN, ipvars, apvars, sysupgrade_stderr, log>>

SshPut ==
    /\ Running /\ sshpc = "put"
    /\ \E ok \in BOOLEAN :
          IF ok THEN /\ ssh_actions' = Append(ssh_actions, <<"scp.put", "/tmp/firmware.bin">>)
                     /\ sshpc' = "exec" /\ UNCHANGED ssh_exc
          ELSE SshRaise /\ UNCHANGED ssh_actions
    /\ UNCHANGED <<mainvars, servars, tftpvars, events, proc, DRYRUN, ipvars, apvars, sysupgrade_stderr, log>>

\* the command without the dry-run variant
sysupgrade_command_NoTest == <<"sysupgrade", "-n", "/tmp/firmware.bin">>

sysupgrade_command ==
    LET base == <<"sysupgrade", "-n", "/tmp/firmware.bin">>
    IN IF DRYRUN
       THEN Replace(base, "sysupgrade", <<"sysupgrade", "--test">>) \o <<"&&", "reboot">>
       ELSE base

\* what the remote command may print on stderr
Stderrs == { <<>>,
             <<"Commencing", "upgrade">>,
             <<"noise", "Commencing", "upgrade", "noise">>,
             <<"Image", "check", "failed">>,
             <<"Commencing", "noise", "upgrade">> }

CommencingUpgrade == <<"Commencing", "upgrade">>

SshExec ==
    /\ Running /\ sshpc = "exec"
    /\ \E ok \in BOOLEAN, stderr \in Stderrs :
          IF ok THEN /\ ssh_actions' = Append(ssh_actions, sysupgrade_command)
                     /\ sysupgrade_stderr' = stderr
                     /\ log' = IF Contains(stderr, CommencingUpgrade)
                               THEN log \cup {"Flashing in progress..."} ELSE log
                     /\ sshpc' = "done" /\ UNCHANGED ssh_exc
          ELSE SshRaise /\ UNCHANGED <<ssh_actions, sysupgrade_stderr, log>>
    /\ UNCHANGED <<mainvars, servars, tftpvars, events, proc, DRYRUN, ipvars, apvars>>

start_ssh == SshWait \/ SshCheckAbort \/ SshConnect \/ SshPut \/ SshExec

----------------------------------------------------------------------------
(* TFTP listener thread (tftp_server.listen) and tftp_server.stop() *)

TftpListen ==
    /\ Running /\ tftp_thread = "starting"
    /\ \E bound \in BOOLEAN : tftp_thread' = IF bound THEN "listening" ELSE "bindfailed"
    /\ UNCHANGED <<mainvars, servars, sshvars, events, proc, DRYRUN, ipvars, apvars, shutdown_gracefully, tftp_stops, log>>

TftpShutdown ==
    /\ Running /\ tftp_thread = "listening" /\ shutdown_gracefully
    /\ tftp_thread' = "stopped"
    /\ UNCHANGED <<mainvars, servars, sshvars, events, proc, DRYRUN, ipvars, apvars, shutdown_gracefully, tftp_stops, log>>

tftp_listen == TftpListen \/ TftpShutdown

----------------------------------------------------------------------------
(* Main thread: main and post_cleanup *)

\* the statements of main() inside try:
InTry == mainpc \in {"spawn_serial", "spawn_ssh", "join_ssh", "join_serial"}

\* `ap_ip_interface, local_ip_interface = setting_up_ips(local_ip, ap_ip)`; a
\* ValueError leaves main()
MainSettingUpIps ==
    /\ Running /\ mainpc = "setting_up_ips"
    /\ plan' = setting_up_ips(local_ip, ap_ip)
    /\ mainpc' = IF plan'.state = "ValueError" THEN "crashed" ELSE "start_tftp_server"
    /\ UNCHANGED <<servars, sshvars, tftpvars, events, proc, DRYRUN, apvars, local_ip, ap_ip, log>>

start_tftp_server ==
    /\ Running /\ mainpc = "start_tftp_server"
    /\ \E copied \in BOOLEAN :
          IF copied THEN tftp_thread' = "starting" /\ mainpc' = "pre_try"
          ELSE mainpc' = "crashed" /\ UNCHANGED tftp_thread
    /\ UNCHANGED <<servars, sshvars, events, proc, DRYRUN, ipvars, apvars, shutdown_gracefully, tftp_stops, log>>

MainPreTry ==
    /\ Running /\ mainpc = "pre_try"
    /\ mainpc' = "spawn_serial"
    /\ UNCHANGED <<servars, sshvars, tftpvars, events, proc, DRYRUN, ipvars, apvars, log>>

MainSpawnSerial ==
    /\ Running /\ mainpc = "spawn_serial"
    /\ serpc' = "open"
    /\ mainpc' = "spawn_ssh"
    /\ UNCHANGED <<sshvars, tftpvars, events, proc, DRYRUN, ipvars, apvars, printenv_return, saveenv_return, chars, cur_retries, written, ser_exc, log>>

MainSpawnSsh ==
    /\ Running /\ mainpc = "spawn_ssh"
    /\ sshpc' = "wait"
    /\ mainpc' = "join_ssh"
    /\ UNCHANGED <<servars, tftpvars, events, proc, DRYRUN, ipvars, apvars, ssh_actions, sysupgrade_stderr, ssh_exc, log>>

\* `while ssh_thread.is_alive(): ssh_thread.join(5)`
MainJoinSsh ==
    /\ Running /\ mainpc = "join_ssh"
    /\ ~SshAlive
    /\ mainpc' = "join_serial"
    /\ UNCHANGED <<servars, sshvars, tftpvars, events, proc, DRYRUN, ipvars, apvars, log>>

\* main() that does not wait for the serial thread
MainJoinSerial_NoWait ==
    /\ Running /\ mainpc = "join_serial"
    /\ log' = log \cup {"All steps finished."}
    /\ mainpc' = "cleanup_ssh"
    /\ UNCHANGED <<servars, sshvars, tftpvars, events, proc, DRYRUN, ipvars, apvars>>

\* `while serial_thread.is_alive(): serial_thread.join(5)`
MainJoinSerial ==
    /\ Running /\ mainpc = "join_serial"
    /\ ~SerialAlive
    /\ log' = log \cup {"All steps finished."}
    /\ mainpc' = "cleanup_ssh"
    /\ UNCHANGED <<servars, sshvars, tftpvars, events, proc, DRYRUN, ipvars, apvars>>

\* KeyboardInterrupt raised in the main thread: caught only inside try:
KeyboardInterrupt ==
    /\ Running /\ mainpc \notin {"done", "crashed"}
    /\ IF InTry
       THEN mainpc' = "cleanup_ssh" /\ log' = log \cup {"Aborting main process"}
       ELSE mainpc' = "crashed" /\ log' = log \cup {"KeyboardInterrupt"}
    /\ UNCHANGED <<servars, sshvars, tftpvars, events, proc, DRYRUN, ipvars, apvars>>

\* `if ssh_thread and ssh_thread.is_alive(): event_abort_ssh.set()`
CleanupAbortSsh ==
    /\ Running /\ mainpc = "cleanup_ssh"
    /\ IF SshAlive
       THEN event_abort_ssh' = TRUE /\ mainpc' = "cleanup_ready"
       ELSE UNCHANGED event_abort_ssh /\ mainpc' = "cleanup_serial"
    /\ UNCHANGED <<servars, sshvars, tftpvars, event_keep_serial_active, event_ssh_ready, proc, DRYRUN, ipvars, apvars, log>>

\* `event_ssh_ready.set()` of post_cleanup
CleanupReadySsh ==
    /\ Running /\ mainpc = "cleanup_ready"
    /\ event_ssh_ready' = TRUE
    /\ mainpc' = "cleanup_serial"
    /\ UNCHANGED <<servars, sshvars, tftpvars, event_keep_serial_active, event_abort_ssh, proc, DRYRUN, ipvars, apvars, log>>

\* `if serial_thread and serial_thread.is_alive(): event_keep_serial_active.clear()`
CleanupSerial ==
    /\ Running /\ mainpc = "cleanup_serial"
    /\ IF SerialAlive
       THEN event_keep_serial_active' = FALSE /\ log' = log \cup {"Stopping Serial thread"}
       ELSE UNCHANGED <<event_keep_serial_active, log>>
    /\ mainpc' = "cleanup_tftp"
    /\ UNCHANGED <<servars, sshvars, tftpvars, event_abort_ssh, event_ssh_ready, proc, DRYRUN, ipvars, apvars>>

\* `tftp_server.stop()`
CleanupTftp ==
    /\ Running /\ mainpc = "cleanup_tftp"
    /\ shutdown_gracefully' = TRUE
    /\ tftp_stops' = tftp_stops + 1
    /\ mainpc' = "done"
    /\ UNCHANGED <<servars, sshvars, tftp_thread, events, proc, DRYRUN, ipvars, apvars, log>>

post_cleanup == CleanupAbortSsh \/ CleanupReadySsh \/ CleanupSerial \/ CleanupTftp

main ==
    \/ MainSettingUpIps \/ start_tftp_server \/ MainPreTry \/ MainSpawnSerial \/ MainSpawnSsh
    \/ MainJoinSsh \/ MainJoinSerial \/ post_cleanup

\* interpreter shutdown: waits for the non-daemon threads (SSH, TFTP listener),
\* then the process ends and takes the daemon serial thread with it
ProcessExit ==
    /\ Running /\ mainpc \in {"done", "crashed"}
    /\ ~SshAlive
    /\ tftp_thread \notin {"starting", "listening"}
    /\ proc' = "exited"
    /\ UNCHANGED <<mainvars, servars, sshvars, tftpvars, events, DRYRUN, ipvars, apvars, log>>

----------------------------------------------------------------------------

InitThreads ==
    /\ mainpc = "setting_up_ips"
    /\ serpc = "unstarted"
    /\ sshpc = "unstarted"
    /\ proc = "running"
    /\ tftp_thread = "none"
    /\ shutdown_gracefully = FALSE
    /\ tftp_stops = 0
    /\ event_keep_serial_active = FALSE
    /\ event_abort_ssh = FALSE
    /\ event_ssh_ready = FALSE
    /\ DRYRUN \in BOOLEAN
    /\ cur_retries = 0
    /\ written = <<>>
    /\ ser_exc = ""
    /\ ssh_actions = <<>>
    /\ sysupgrade_stderr = <<>>
    /\ ssh_exc = ""
    /\ log = {}
    /\ printenv_return = <<>>
    /\ saveenv_return = NotRead
    /\ chars = <<>>
    /\ plan = NoPlan

\* flash_ap325.py is a program of its own: it is not running in a run of ws-ap3710i.py
Ap325Unstarted ==
    /\ appc = "unstarted"
    /\ router_written = <<>>
    /\ router_version = <<>>
    /\ netget_res = <<>>
    /\ image_size = -1
    /\ ap_exc = ""

Init ==
    /\ InitThreads
    /\ Ap325Unstarted
    /\ local_ip \in RunLocalIps
    /\ ap_ip \in RunApIps

\* the start of main() on every address of Interfaces
IpInit ==
    /\ InitThreads
    /\ Ap325Unstarted
    /\ local_ip \in Interfaces
    /\ ap_ip \in Interfaces \cup {NoInterface}

IpNext == MainSettingUpIps \/ start_tftp_server

Next ==
    \/ main
    \/ start_tftp_boot_via_serial
    \/ start_ssh
    \/ tftp_listen
    \/ ProcessExit
    \/ KeyboardInterrupt

Spec == Init /\ [][Next]_vars

\* main() up to the start of the TFTP service, for all addresses
IpSpec == IpInit /\ [][IpNext]_vars

\* every thread that can take a step eventually takes one; nobody is obliged
\* to press ctrl+c
FairSpec ==
    /\ Spec
    /\ WF_vars(main)
    /\ WF_vars(start_tftp_boot_via_serial)
    /\ WF_vars(start_ssh)
    /\ WF_vars(tftp_listen)
    /\ WF_vars(ProcessExit)

TypeOK ==
    /\ mainpc \in {"setting_up_ips", "start_tftp_server", "pre_try", "spawn_serial", "spawn_ssh", "join_ssh", "join_serial",
                   "cleanup_ssh", "cleanup_ready", "cleanup_serial", "cleanup_tftp", "done", "crashed"}
    /\ sshpc \in {"unstarted", "wait", "check_abort", "connect", "put", "exec", "done", "aborted", "failed"}
    /\ proc \in {"running", "exited", "os_exit"}
    /\ tftp_thread \in {"none", "starting", "listening", "bindfailed", "stopped"}
    /\ cur_retries \in 0..(max_retries + 1)
    /\ tftp_stops \in 0..1

----------------------------------------------------------------------------
(* flash_ap325.py: the AP325 flasher, a sequential program of its own.     *)
(* A command written to the router is a record: its fixed text, the digits *)
(* of a number formatted into it, and a file name or address put into it.  *)

EXPECTED_VERSION == <<"1.5.7.2">>

\* TFTP_SERVER_IP = None
TFTP_SERVER_IP == <<>>

\* flash_factory's default, which main() uses
continue_flash == TRUE

Cmd(c) == [cmd |-> c, arg |-> <<>>, text |-> <<>>]

\* router.write(cmd + b"\r\n") of run_serial_command
run_serial_command(command) == router_written' = Append(router_written, command)

\* an exception leaves the `with serial.Serial(...)` block and main()
ApRaise(exc) == appc' = "failed" /\ ap_exc' = exc

\* int(text) of a string of decimal digits; digits above 9 stand for other characters
IsDecimal(ds) == ds # <<>> /\ \A i \in 1..Len(ds) : ds[i] \in 0..9

RECURSIVE IntOf(_)
IntOf(ds) == IF ds = <<>> THEN 0 ELSE 10 * IntOf(SubSeq(ds, 1, Len(ds) - 1)) + ds[Len(ds)]

\* f"{size}": the decimal digits
RECURSIVE HexFormat_Decimal(_)
HexFormat_Decimal(n) == IF n < 10 THEN <<n>> ELSE Append(HexFormat_Decimal(n \div 10), n % 10)

\* f"{size:x}": the hexadecimal digits
RECURSIVE HexFormat(_)
HexFormat(n) == IF n < 16 THEN <<n>> ELSE Append(HexFormat(n \div 16), n % 16)

\* the number the bootloader reads from the digits of a command (base 16)
RECURSIVE HexValue(_)
HexValue(ds) == IF ds = <<>> THEN 0 ELSE 16 * HexValue(SubSeq(ds, 1, Len(ds) - 1)) + ds[Len(ds)]

\* first lines the console can deliver after power-on
Banners == { <<>>,
             <<"NUL">>,
             <<"APBoot", "1.5.7.2", "(build", "57679", ")">>,
             <<"NUL", "APBoot", "1.5.7.2", "(build", "57679", ")">>,
             <<"APBoot", "1.5.5.5", "(build", "38764", ")">>,
             <<"APBoot", "1.5.7.2", "beta", "(build", "1", ")">>,
             <<"APBoot", "1.5.7.2", "(build", "1", ")", "(build", "2", ")">>,
             <<"noise", "APBoot", "1.5.7.2", "(build", "57679", ")">>,
             <<"APBoot", "1.5.7.2">> }

\* re.match(rb"APBoot (?P<version>.*) \(build (?P<build>.*)\)", line): where
\* " (build " can start so that the pattern matches
BuildAt(line) ==
    IF Len(line) >= 1 /\ line[1] = "APBoot"
    THEN {k \in 3..Len(line) : line[k] = "(build" /\ \E j \in (k + 1)..Len(line) : line[j] = ")"}
    ELSE {}

\* m.group("version"): greedy, up to the last " (build "
VersionOf(line) ==
    LET k == CHOOSE i \in BuildAt(line) : \A j \in BuildAt(line) : j <= i
    IN SubSeq(line, 2, k - 1)

\* replies to dhcp
DhcpReplies ==
    { << [key |-> "DHCP IP address", value |-> <<192, 168, 1, 20>>],
         [key |-> "DHCP def gateway", value |-> <<192, 168, 1, 1>>] >>,
      << [key |-> "DHCP IP address", value |-> <<192, 168, 1, 20>>] >>,
      <<>> }

\* re.search(b"^<key>: (?P<..>.*)$", res, flags=re.MULTILINE): the lines that match
KeyLines(res, key) == {i \in 1..Len(res) : res[i].key = key}

\* replies to netget: lines "<key> = <value> <tail>"
NetgetReplies ==
    { << [key |-> "Using eth0 device", value |-> <<>>, tail |-> ""],
         [key |-> "Bytes transferred", value |-> <<5, 2, 4, 2, 8, 8>>, tail |-> "(80000 hex)"] >>,
      << [key |-> "Bytes transferred", value |-> <<2, 5, 5>>, tail |-> "(ff hex)"] >>,
      << [key |-> "Bytes transferred", value |-> <<1, 6>>, tail |-> "(10 hex)"],
         [key |-> "Bytes transferred", value |-> <<3, 2>>, tail |-> "(20 hex)"] >>,
      << [key |-> "Bytes transferred", value |-> <<0>>, tail |-> "(0 hex)"] >>,
      << [key |-> "Bytes transferred", value |-> <<2, 5, 5>>, tail |-> ""] >>,
      << [key |-> "Bytes transferred", value |-> <<2, 99>>, tail |-> "(ff hex)"] >>,
      << [key |-> "Retry count exceeded; starting again", value |-> <<>>, tail |-> ""] >>,
      <<>> }

\* re.search(b"^Bytes transferred = (?P<bytes>.*) \\(.*$", res, flags=re.MULTILINE):
\* the lines that match
BytesLines(res) == {i \in 1..Len(res) : res[i].key = "Bytes transferred" /\ res[i].tail # ""}

\* .group("bytes") of the first match
BytesOf(res) == res[CHOOSE i \in BytesLines(res) : \A j \in BytesLines(res) : i <= j].value

\* the variables of ws-ap3710i.py, which flash_ap325.py does not touch
wsvars == <<mainvars, servars, sshvars, tftpvars, events, ipvars, proc, DRYRUN, log>>

find_serial_port ==
    /\ appc = "find_serial_port"
    /\ \E found \in BOOLEAN :
          IF found THEN appc' = "bl_open" /\ UNCHANGED ap_exc
          ELSE ApRaise("RuntimeError")
    /\ UNCHANGED <<wsvars, router_written, router_version, netget_res, image_size>>

\* `with serial.Serial(port=port, ...) as router:`
ApOpen(at, next) ==
    /\ appc = at
    /\ \E ok \in BOOLEAN :
          IF ok THEN appc' = next /\ UNCHANGED ap_exc
          ELSE ApRaise("SerialException")
    /\ UNCHANGED <<wsvars, router_written, router_version, netget_res, image_size>>

\* a comparison that never finds the expected version
VersionMatches_Never(version) == FALSE

\* `router_version == EXPECTED_VERSION`
VersionMatches(version) == version = EXPECTED_VERSION

\* wait_for_content, the match of the banner and the version test of flash_bootloader
BootloaderBanner ==
    /\ appc = "bl_banner"
    /\ \E raw \in Banners :
          LET line == Replace(raw, "NUL", <<>>)
          IN IF line = <<>>
             THEN UNCHANGED <<appc, router_version, ap_exc>>
             ELSE IF BuildAt(line) = {}
             THEN ApRaise("AssertionError") /\ UNCHANGED router_version
             ELSE /\ router_version' = VersionOf(line)
                  /\ appc' = IF VersionMatches(router_version') THEN "ff_open" ELSE "bl_stop_autoboot"
                  /\ UNCHANGED ap_exc
    /\ UNCHANGED <<wsvars, router_written, netget_res, image_size>>

\* `if not continue_flash:` of flash_factory
FactoryBanner ==
    /\ appc = "ff_banner"
    /\ IF continue_flash
       THEN appc' = "ff_stop_autoboot" /\ UNCHANGED <<router_version, ap_exc>>
       ELSE \E raw \in Banners :
              LET line == Replace(raw, "NUL", <<>>)
              IN IF line = <<>>
                 THEN UNCHANGED <<appc, router_version, ap_exc>>
                 ELSE IF BuildAt(line) = {}
                 THEN ApRaise("AssertionError") /\ UNCHANGED router_version
                 ELSE /\ router_version' = VersionOf(line)
                      /\ appc' = "ff_stop_autoboot"
                      /\ UNCHANGED ap_exc
    /\ UNCHANGED <<wsvars, router_written, netget_res, image_size>>

\* stop_autoboot up to the prompt: read until the autoboot marker, then send the newline
StopAutobootWait(at, next) ==
    /\ appc = at
    /\ \E seen \in {"<Enter> to stop autoboot:", "Booting OS partition", "noise"} :
          IF seen = "<Enter> to stop autoboot:"
          THEN run_serial_command(Cmd("")) /\ appc' = next /\ UNCHANGED ap_exc
          ELSE IF seen = "Booting OS partition"
          THEN ApRaise("AssertionError") /\ UNCHANGED router_written
          ELSE UNCHANGED <<appc, ap_exc, router_written>>
    /\ UNCHANGED <<wsvars, router_version, netget_res, image_size>>

\* the rest of stop_autoboot: autoreboot off, dhcp, serverip, autostart
StopAutobootDhcp(at, next) ==
    /\ appc = at
    /\ \E res \in DhcpReplies :
          IF KeyLines(res, "DHCP IP address") = {} \/ KeyLines(res, "DHCP def gateway") = {}
          THEN /\ router_written' = router_written \o <<Cmd("autoreboot off"), Cmd("dhcp")>>
               /\ ApRaise("AttributeError")
          ELSE LET apboot_gateway == res[CHOOSE i \in KeyLines(res, "DHCP def gateway") :
                                           \A j \in KeyLines(res, "DHCP def gateway") : i <= j].value
                   serverip == IF TFTP_SERVER_IP = <<>> THEN apboot_gateway ELSE TFTP_SERVER_IP
               IN /\ router_written' = router_written \o
                        <<Cmd("autoreboot off"), Cmd("dhcp"),
                          [cmd |-> "setenv serverip", arg |-> serverip, text |-> ""],
                          Cmd("setenv autostart n")>>
                  /\ appc' = next /\ UNCHANGED ap_exc
    /\ UNCHANGED <<wsvars, router_version, netget_res, image_size>>

write_netget(at, next, filename) ==
    /\ appc = at
    /\ \E res \in NetgetReplies :
          /\ run_serial_command([cmd |-> "netget 44000000", arg |-> <<>>, text |-> filename])
          /\ netget_res' = res
          /\ IF BytesLines(res) = {}
             THEN ApRaise("AttributeError") /\ UNCHANGED image_size
             ELSE IF ~IsDecimal(BytesOf(res))
             THEN ApRaise("ValueError") /\ UNCHANGED image_size
             ELSE image_size' = IntOf(BytesOf(res)) /\ appc' = next /\ UNCHANGED ap_exc
    /\ UNCHANGED <<wsvars, router_version>>

\* one run_serial_command(router, ...) of flash_bootloader or flash_factory
ApCommand(at, next, command) ==
    /\ appc = at
    /\ run_serial_command(command)
    /\ appc' = next
    /\ UNCHANGED <<wsvars, router_version, netget_res, image_size, ap_exc>>

flash_bootloader ==
    \/ ApOpen("bl_open", "bl_banner")
    \/ BootloaderBanner
    \/ StopAutobootWait("bl_stop_autoboot", "bl_dhcp")
    \/ StopAutobootDhcp("bl_dhcp", "bl_netget")
    \/ write_netget("bl_netget", "bl_sf_erase", "u-boot.mbn")
    \/ ApCommand("bl_sf_erase", "bl_sf_write", Cmd("sf erase 220000 100000"))
    \/ ApCommand("bl_sf_write", "bl_nand_device",
                 [cmd |-> "sf write 44000000 220000", arg |-> HexFormat(image_size), text |-> ""])
    \/ ApCommand("bl_nand_device", "bl_nand_erase", Cmd("nand device 0"))
    \/ ApCommand("bl_nand_erase", "bl_reset", Cmd("nand erase.chip"))
    \/ ApCommand("bl_reset", "ff_open", Cmd("reset"))

flash_factory ==
    \/ ApOpen("ff_open", "ff_banner")
    \/ FactoryBanner
    \/ StopAutobootWait("ff_stop_autoboot", "ff_dhcp")
    \/ StopAutobootDhcp("ff_dhcp", "ff_netget")
    \/ write_netget("ff_netget", "ff_nand_device", "gluon-ffac-v2025.0.0-9-aruba-ap-325.bin")
    \/ ApCommand("ff_nand_device", "ff_nand_erase", Cmd("nand device 0"))
    \/ ApCommand("ff_nand_erase", "ff_nand_write", Cmd("nand erase.part aos0"))
    \/ ApCommand("ff_nand_write", "ff_setenv",
                 [cmd |-> "nand write 44000000 aos0", arg |-> HexFormat(image_size), text |-> ""])
    \/ ApCommand("ff_setenv", "ff_saveenv", Cmd("setenv os_partition 0"))
    \/ ApCommand("ff_saveenv", "ff_reset", Cmd("saveenv"))
    \/ ApCommand("ff_reset", "ff_newline", Cmd("reset"))
    \/ ApCommand("ff_newline", "finished", Cmd(""))

\* main(filename) of flash_ap325.py
ap325_main == find_serial_port \/ flash_bootloader \/ flash_factory

\* flash_ap325.py started; ws-ap3710i.py does not run
Ap325Init ==
    /\ InitThreads /\ DRYRUN = FALSE
    /\ local_ip = NoInterface /\ ap_ip = NoInterface
    /\ appc = "find_serial_port"
    /\ router_written = <<>>
    /\ router_version = <<>>
    /\ netget_res = <<>>
    /\ image_size = -1
    /\ ap_exc = ""

Ap325Next == ap325_main

Ap325Spec == Ap325Init /\ [][Ap325Next]_vars

----------------------------------------------------------------------------
(* Properties *)

\* boot_set_ips has written its last command
IpsAssigned == Has(written, "ip -4 address show")

BridgeSeen == "br-lan is ready." \in log

\* the SSH thread is past its abort check: it opens the transport next or already has
SshUploading == sshpc \in {"connect", "put", "exec", "done", "failed"}

Interrupted == "Aborting main process" \in log \/ "KeyboardInterrupt" \in log

\* C1: in every interleaving, external interrupts included, the SSH thread opens
\* its transport / uploads only after the serial thread has seen the bridge-ready
\* marker and completed boot_set_ips.
C1_UploadAfterAddressAssigned ==
    (SshUploading \/ ssh_actions # <<>>) => (IpsAssigned /\ BridgeSeen)

C1_Witness ==
    /\ Len(ssh_actions) >= 2
    /\ IpsAssigned
    /\ Interrupted

\* the tri-state view of the pair event_ssh_ready / event_abort_ssh
ReadinessSignal ==
    IF event_abort_ssh THEN "Aborted"
    ELSE IF event_ssh_ready THEN "Ready"
    ELSE "Pending"

\* C2: the readiness signal changes at most once: once it is Ready or Aborted
\* it keeps that value (never both Ready and Aborted in one run, never back to
\* Pending).
C2_SignalSetOnce ==
    [][ReadinessSignal # "Pending" => ReadinessSignal' = ReadinessSignal]_vars

\* C3: when the serial thread has failed without having signalled readiness,
\* the SSH thread is eventually released with the signal Aborted and ends with
\* no upload or upgrade action (stated for the runs nobody interrupts: an
\* interrupted run, or one ended by os._exit, counts as released).
C3_SerialFailureAbortsSsh ==
    (serpc = "failed" /\ ~event_ssh_ready)
        ~> (ssh_actions = <<>> /\ (sshpc = "aborted" \/ Interrupted \/ proc # "running"))

\* C4: when the process has ended after the TFTP listener was serving,
\* tftp_server.stop() has been called exactly once.
C4_TftpStoppedOnceOnExit ==
    (proc # "running" /\ tftp_thread \in {"listening", "stopped"}) => tftp_stops = 1

\* C5: after an external interrupt the run winds down: every thread ends and
\* the TFTP listener is stopped, so the process exits.
C5_InterruptEndsRun ==
    Interrupted ~> (proc # "running")

\* C6: when the serial thread or the SSH thread ends with an exception, main
\* gets to its cleanup without an interrupt and the run ends with both threads
\* finished and the TFTP service stopped (runs that are interrupted anyway are
\* not counted against the claim).
C6_FailureObserved ==
    (serpc = "failed" \/ sshpc = "failed")
        ~> \/ Interrupted
           \/ proc # "running"
           \/ (mainpc = "done" /\ tftp_stops = 1 /\ ~SerialAlive /\ ~SshAlive)

\* something went wrong in the run: an interrupt, an exception in a thread, a
\* crash of main or os._exit
Faulted ==
    \/ Interrupted
    \/ mainpc = "crashed"
    \/ serpc = "failed"
    \/ sshpc = "failed"
    \/ proc = "os_exit"

Completed ==
    /\ mainpc = "done"
    /\ sshpc = "done"
    /\ serpc = "terminated"
    /\ tftp_stops = 1

\* C7: on the fault-free path the run terminates with the SSH thread done and
\* the serial thread terminated after the restart marker, and main calls
\* tftp_server.stop() only after it joined both.
C7_FaultFreeRunCompletes ==
    /\ []((tftp_stops > 0 /\ ~Faulted) => (sshpc = "done" /\ serpc = "terminated"))
    /\ <>(Faulted \/ Completed)

C7_Witness == Completed /\ ~Faulted /\ "Reboot detected." \in log

RetriesFatal == ser_exc = "Maximum TFTP retries reached. Aborting"

\* C8: with bound 2 the network-boot loop tolerates exactly two retry-exceeded
\* markers: while the loop runs the counter is at most 2, and the step fails on
\* the third marker (counter 3), sending ctrl-c.
C8_RetryBound ==
    /\ serpc = "boot_via_tftp_loop" => cur_retries <= 2
    /\ RetriesFatal => (cur_retries = 3 /\ serpc = "failed" /\ written[Len(written)] = "ctrl-c")
    /\ (serpc = "failed" /\ cur_retries > 0) => RetriesFatal

C8_Witness == RetriesFatal /\ cur_retries = 3

\* C9: once a wrong-image-format or missing-kernel marker has been read in the
\* network-boot loop the serial thread is dead (failed, or the process gone).
C9_BadImageFatal ==
    ("TFTP boot found wrong image format" \in log \/ "Unable to boot initramfs file." \in log)
        => (serpc = "failed" \/ proc = "os_exit")

\* C10: the SSH thread ends as succeeded only when stderr contained
\* "Commencing upgrade"; without it the thread ends as failed and the run does
\* not report that all steps finished.
C10_UpgradeClassified ==
    /\ sshpc = "done" => Contains(sysupgrade_stderr, CommencingUpgrade)
    /\ ("All steps finished." \in log /\ Len(ssh_actions) = 3)
          => Contains(sysupgrade_stderr, CommencingUpgrade)

NoBootEnvOrNetbootCommand ==
    \A c \in {"setenv boot_openwrt", "setenv bootcmd", "saveenv", "tftpboot"} : ~Has(written, c)

\* the dump holds a boot_openwrt key whose value is not the expected command
DumpHasOtherBootOpenwrt ==
    \E i \in 1..Len(printenv_return) :
        printenv_return[i].key = "boot_openwrt" /\ printenv_return[i].value # boot_openwrt_params

\* C11: when the printenv reply holds boot_openwrt with a value other than the
\* expected command, the serial thread fails without having sent setenv or
\* saveenv, and it never sends the tftpboot command.
C11_MismatchFailsBeforeWrite ==
    DumpHasOtherBootOpenwrt
        => /\ serpc = "failed"
           /\ ser_exc = "Unexpected param for 'boot_openwrt' found."
           /\ NoBootEnvOrNetbootCommand

C11_Witness == DumpHasOtherBootOpenwrt /\ serpc = "failed" /\ Has(written, "printenv")

\* main() has called setting_up_ips with an IPv4 local address given as /32
SingleHostLocalDone == plan.state # "none" /\ IsIPv4(local_ip) /\ local_ip.prefixlen = 32

\* the local address widened to /24 and, when no device address was given, the
\* device address x.y.z.254/24 (broadcast minus one, same prefix length)
WidenedPlan ==
    /\ plan.local_ip_interface = [ip |-> local_ip.ip, prefixlen |-> 24]
    /\ ap_ip = NoInterface
          => plan.ap_ip_interface = [ip |-> [local_ip.ip EXCEPT ![4] = 254], prefixlen |-> 24]

\* C12 as stated: for every IPv4 local address with a /32 prefix setting_up_ips
\* returns the local address widened to /24 and, when no device address is
\* supplied, the device address broadcast minus one on the same prefix length.
C12_WidenedAlwaysReturned ==
    SingleHostLocalDone => (plan.state = "returned" /\ WidenedPlan)

\* C12 amended: for every IPv4 local address with a /32 prefix setting_up_ips
\* raises ValueError exactly when the device address is missing and the local
\* address is x.y.z.254 itself, or the given device address has a prefix of
\* max_prefixlen - 1 or equals the local address; otherwise it returns the
\* local address widened to /24 and, when no device address is supplied, the
\* device address broadcast minus one on the same prefix length.
C12_WidenedUnlessRejected ==
    SingleHostLocalDone
        => /\ plan.state = "ValueError"
                <=> \/ ap_ip = NoInterface /\ local_ip.ip[4] = 254
                    \/ ap_ip # NoInterface /\ ap_ip.prefixlen = max_prefixlen(ap_ip) - 1
                    \/ ap_ip # NoInterface /\ ap_ip.ip = local_ip.ip
           /\ plan.state = "returned" => WidenedPlan

C12_Witness ==
    /\ SingleHostLocalDone /\ plan.state = "returned" /\ ap_ip = NoInterface
    /\ plan.ap_ip_interface = [ip |-> <<10, 0, 0, 254>>, prefixlen |-> 24]

\* the prefix leaves room for two hosts and a broadcast address
RoomForTwoHosts(iface) == max_prefixlen(iface) - iface.prefixlen >= 2

\* an input setting_up_ips has to reject
BadAddressInput ==
    \/ local_ip.prefixlen = max_prefixlen(local_ip) - 1
    \/ ap_ip # NoInterface /\ ap_ip.prefixlen = max_prefixlen(ap_ip) - 1
    \/ ap_ip # NoInterface /\ ap_ip.ip = local_ip.ip

\* C13: a plan returned by setting_up_ips has two different addresses and two
\* prefixes with room for two hosts plus broadcast; an input with equal
\* addresses or a prefix of max_prefixlen - 1 is rejected with ValueError, and
\* then main() has ended before the TFTP service or a thread was started.
C13_PlanValid ==
    /\ plan.state = "returned"
          => /\ plan.ap_ip_interface.ip # plan.local_ip_interface.ip
             /\ RoomForTwoHosts(plan.ap_ip_interface)
             /\ RoomForTwoHosts(plan.local_ip_interface)
    /\ (plan.state # "none" /\ BadAddressInput) => plan.state = "ValueError"
    /\ plan.state = "ValueError"
          => /\ mainpc = "crashed"
             /\ tftp_thread = "none" /\ serpc = "unstarted" /\ sshpc = "unstarted"

C13_Witness ==
    /\ plan.state = "returned" /\ ap_ip # NoInterface
    /\ local_ip.prefixlen = 30
    /\ tftp_thread = "starting"

\* C14: up to and in bootup_interrupt nothing has been written to the serial
\* port; the step that leaves bootup_interrupt with the keep-running flag set
\* (the first line with a JFFS2 marker) writes exactly the one interrupt byte
\* and goes on to the login; the byte is never written a second time.
C14_OneInterruptByte ==
    /\ [](serpc \in {"unstarted", "open", "arm", "bootup_interrupt"} => written = <<>>)
    /\ [][(serpc = "bootup_interrupt" /\ serpc' # "bootup_interrupt" /\ event_keep_serial_active)
             => (written' = <<"x">> /\ serpc' = "bootup_login")]_vars
    /\ [](Count(written, "x") <= 1)

C14_Witness == written = <<"x">> /\ serpc = "bootup_login" /\ event_keep_serial_active

\* commands that change the state of the device: boot environment, network
\* boot and address commands (not the interrupt byte, the login, the queries)
StateChanging(c) ==
    c \notin {"x", "admin", "new2day", "printenv", "newline", "ip -4 address show", "ctrl-c"}

ResourceFailure == tftp_thread = "bindfailed" \/ ser_exc = "SerialException"

\* C15: once the serial port could not be opened or the TFTP listener could
\* not bind, the serial thread sends no device-state-changing command any more.
C15_ResourceFailureStopsDriver ==
    [][ResourceFailure
          => \A i \in (Len(written) + 1)..Len(written') : ~StateChanging(written'[i])]_vars

\* the remote commands the SSH thread has executed
UpgradeCommands == {ssh_actions[i] : i \in {j \in 1..Len(ssh_actions) : ssh_actions[j][1] = "sysupgrade"}}

\* C16: in a dry run the serial thread never sends saveenv and the only remote
\* upgrade command is `sysupgrade --test -n /tmp/firmware.bin && reboot`.
C16_DryRunNotPersistent ==
    DRYRUN => /\ ~Has(written, "saveenv")
              /\ UpgradeCommands \subseteq {<<"sysupgrade", "--test", "-n", "/tmp/firmware.bin", "&&", "reboot">>}

C16_Witness ==
    /\ DRYRUN /\ sshpc = "done" /\ UpgradeCommands # {}
    /\ Has(written, "setenv bootcmd")

\* the BootState a position of the serial thread stands for
BootStateOf(pc) ==
    CASE pc \in {"unstarted", "open", "arm", "bootup_interrupt"} -> "AwaitingInterrupt"
      [] pc = "bootup_login" -> "LoggingIn"
      [] pc = "bootup_login_verification" -> "VerifyingLogin"
      [] pc = "bootup_set_boot_openwrt" -> "ConfiguringBootEnv"
      [] pc \in {"boot_via_tftp", "boot_via_tftp_loop"} -> "NetworkBooting"
      [] pc = "boot_wait_for_brlan" -> "AwaitingBridgeUp"
      [] pc \in {"boot_set_ips", "signal_ready"} -> "AddressAssigned"
      [] pc = "keep_logging_until_reboot" -> "AwaitingUpgradeComplete"
      [] pc = "terminated" -> "Terminated"
      [] pc = "failed" -> "Failed"

BootOrder == <<"AwaitingInterrupt", "LoggingIn", "VerifyingLogin", "ConfiguringBootEnv", "NetworkBooting",
               "AwaitingBridgeUp", "AddressAssigned", "AwaitingUpgradeComplete", "Terminated">>

BootRank(state) == CHOOSE i \in 1..Len(BootOrder) : BootOrder[i] = state

\* C18: every change of BootState is a move to the next state of the order or
\* to Failed; Terminated and Failed are never left; the retry counter only
\* moves in NetworkBooting, by one, and the driver stays there only while the
\* counter is within the bound.
C18_BootStateForward ==
    [][LET a == BootStateOf(serpc)
           b == BootStateOf(serpc')
       IN /\ a \in {"Terminated", "Failed"} => b = a
          /\ b # a => (b = "Failed" \/ BootRank(b) = BootRank(a) + 1)
          /\ cur_retries' # cur_retries
                => /\ a = "NetworkBooting" /\ cur_retries' = cur_retries + 1
                   /\ b = (IF cur_retries' <= max_retries THEN "NetworkBooting" ELSE "Failed")]_vars

C18_Witness == serpc = "terminated" /\ cur_retries = 2 /\ event_keep_serial_active

\* the serial thread has read a printenv reply that has no boot_openwrt key
KeyAbsentDump == printenv_return # <<>> /\ BootOpenwrtMatches(printenv_return) = {}

\* C19: when the printenv reply has no boot_openwrt key and dry-run is off, the
\* serial thread has sent setenv boot_openwrt, setenv bootcmd and saveenv in
\* this order, and when the saveenv reply lacks "Writing to Flash" it has
\* failed and never sends the tftpboot command.
C19_AbsentKeyIsWrittenAndPersisted ==
    (KeyAbsentDump /\ ~DRYRUN)
        => /\ Contains(written, <<"setenv boot_openwrt", "setenv bootcmd", "saveenv">>)
           /\ ~Has(saveenv_return, "Writing to Flash")
                 => (serpc = "failed" /\ ~Has(written, "tftpboot"))

\* C20: the login counts as successful only when the bytes read in
\* bootup_login_verification contain "Boot (PRI)->"; when bytes were read that
\* do not contain it the serial thread has failed and sends neither printenv,
\* setenv, saveenv nor tftpboot.
C20_LoginVerified ==
    /\ "U-Boot login successful!" \in log => Has(chars, prompt_string)
    /\ (chars # <<>> /\ ~Has(chars, prompt_string))
          => /\ serpc = "failed" /\ ser_exc = "U-Boot login failed :(("
             /\ NoBootEnvOrNetbootCommand /\ ~Has(written, "printenv")

C20_Witness == chars # <<>> /\ ~Has(chars, prompt_string) /\ serpc = "failed"

\* the SSH thread has returned from event_ssh_ready.wait() and stands before
\* its abort check
SshUnblocked == sshpc = "check_abort"

\* C21: when the SSH thread is unblocked while the signal is Aborted, its next
\* step is the return: it ends as aborted with no transport opened, nothing
\* uploaded, no remote command executed, no stderr captured and no exception,
\* and it never logs "SSH Starting" nor acts afterwards.
C21_AbortedSshHasNoEffects ==
    [][/\ (SshUnblocked /\ ReadinessSignal = "Aborted")
            => /\ sshpc' \in {"check_abort", "aborted"}
               /\ UNCHANGED <<ssh_actions, sysupgrade_stderr, ssh_exc>>
               /\ sshpc' = "aborted" => UNCHANGED log
       /\ sshpc = "aborted"
            => /\ sshpc' = "aborted"
               /\ ssh_actions' = <<>> /\ sysupgrade_stderr' = <<>> /\ ssh_exc' = ""]_vars

C21_Witness ==
    /\ sshpc = "aborted" /\ ReadinessSignal = "Aborted" /\ event_ssh_ready
    /\ ssh_actions = <<>>
    /\ IpsAssigned

\* the serial or the SSH thread has been started
ActorSpawned == serpc # "unstarted" \/ sshpc # "unstarted"

\* one of the two actors is still running
ActorRunning == Running /\ (SerialAlive \/ SshAlive)

\* tftp_server.stop() has been called
TftpStopRequested == shutdown_gracefully \/ tftp_stops > 0

\* the listener thread has been started and has not failed or ended; a
\* listener that is about to bind counts as serving
TftpServing == tftp_thread \in {"starting", "listening"}

\* C22: the TFTP listener thread is started before the serial or the SSH thread;
\* in a run without KeyboardInterrupt tftp_server.stop() is not called while
\* one of the two threads is running, and the listener is serving whenever the
\* serial thread is in boot_via_tftp.
C22_TftpServesWhileActorsRun ==
    /\ ActorSpawned => tftp_thread # "none"
    /\ (ActorRunning /\ ~Interrupted) => ~TftpStopRequested
    /\ (Running /\ BootStateOf(serpc) = "NetworkBooting" /\ ~Interrupted) => TftpServing

\* post_cleanup has found the serial thread alive and cleared the keep-running flag
SerialCancelled == "Stopping Serial thread" \in log

\* C23: once post_cleanup has cleared event_keep_serial_active, and for as long
\* as it is clear, the serial thread writes nothing more to the serial port
\* and does not turn the readiness signal from Pending into Ready.
C23_NoCommandAfterCancel ==
    [][(SerialCancelled /\ ~event_keep_serial_active)
          => /\ written' = written
             /\ ~(ReadinessSignal = "Pending" /\ ReadinessSignal' = "Ready")]_vars

\* C24: once post_cleanup has cleared event_keep_serial_active the flag is
\* clear in every later state of the run, whatever the serial thread was doing
\* when it was cleared.
C24_CancelledStaysCancelled ==
    SerialCancelled => ~event_keep_serial_active

\* the commands of flash_ap325.py that erase or write flash
FlashCommands == {"sf erase 220000 100000", "sf write 44000000 220000", "nand erase.chip",
                  "nand erase.part aos0", "nand write 44000000 aos0"}

\* those of them that take the length of the downloaded image
WriteCommands == {"sf write 44000000 220000", "nand write 44000000 aos0"}

\* the lines "Bytes transferred = N", N a decimal number, of a netget reply
TransferredLines(res) == {i \in 1..Len(res) : res[i].key = "Bytes transferred" /\ IsDecimal(res[i].value)}

\* N of the first such line
TransferredBytes(res) ==
    IntOf(res[CHOOSE i \in TransferredLines(res) : \A j \in TransferredLines(res) : i <= j].value)

\* where netget was sent
NetgetAt(cmds) == {i \in 1..Len(cmds) : cmds[i].cmd = "netget 44000000"}

\* a netget has been sent and no reset since
DownloadPrecedes(cmds) ==
    \E n \in NetgetAt(cmds) : \A j \in (n + 1)..Len(cmds) : cmds[j].cmd # "reset"

\* C25: every step of the AP325 flasher that sends a flash erase or write
\* command is taken after a netget (with no reset in between) whose reply has
\* a "Bytes transferred = N" line, and the length in a write command, read as
\* the hexadecimal number the bootloader takes it for, is that N; when the
\* reply to the netget just sent has no such line the flasher has failed (and
\* sends nothing more).
C25_FlashOnlyAfterDownload ==
    /\ [][\A i \in (Len(router_written) + 1)..Len(router_written') :
             router_written'[i].cmd \in FlashCommands
                => /\ DownloadPrecedes(router_written)
                   /\ TransferredLines(netget_res) # {}
                   /\ router_written'[i].cmd \in WriteCommands
                         => HexValue(router_written'[i].arg) = TransferredBytes(netget_res)]_vars
    /\ []((NetgetAt(router_written) # {} /\ TransferredLines(netget_res) = {})
             => (appc = "failed" /\ router_written[Len(router_written)].cmd = "netget 44000000"))

C25_Witness ==
    /\ appc = "finished"
    /\ \E i \in 1..Len(router_written) :
          router_written[i] = [cmd |-> "sf write 44000000 220000", arg |-> <<8, 0, 0, 0, 0>>, text |-> ""]
    /\ \E i \in 1..Len(router_written) :
          router_written[i] = [cmd |-> "nand write 44000000 aos0", arg |-> <<15, 15>>, text |-> ""]

\* main() is in flash_bootloader, or has just returned from it
BootloaderPositions == {"bl_open", "bl_banner", "bl_stop_autoboot", "bl_dhcp", "bl_netget", "bl_sf_erase",
                        "bl_sf_write", "bl_nand_device", "bl_nand_erase", "bl_reset", "ff_open"}

\* C26: when the banner gave the expected version, flash_bootloader writes
\* nothing to the router: up to its return no newline, command, download,
\* erase, write or reset has been sent.
C26_MatchingVersionSendsNothing ==
    (router_version = EXPECTED_VERSION /\ appc \in BootloaderPositions) => router_written = <<>>

C26_Witness ==
    /\ router_version = EXPECTED_VERSION /\ appc = "ff_open" /\ router_written = <<>>

====
